---- MODULE Spec2Model ----
(***************************************************************************)
(* Model of the standup bot (standup/bot.py): the message handler, the     *)
(* room administration commands and the background task that prunes        *)
(* expired posts.  The Room and Post tables live in standup/persist.py;    *)
(* their operations are modelled by their read/write contract.             *)
(***************************************************************************)
EXTENDS Integers, Sequences, FiniteSets, TLC

(* ------------------------------ bounds --------------------------------- *)
\* messages delivered to on_message over a run
MaxMsgs == 1
\* number of times the clock is advanced over a run
MaxAdvance == 2

(* ------------------------- program constants --------------------------- *)
\* asyncio.sleep(60) of the prune task
SweepInterval == 60
\* default cooldown of a room, in seconds
DefaultCooldown == 86400

(* ------------------------------ universe ------------------------------- *)
Channels == {42, 43}
Users == {1, 2}
\* members holding the administrator permission
Admins == {1}
\* roles for which ctx.guild.get_role(id) returns a role
GuildRoles == {7}
\* amounts by which the clock advances between two steps
TimeSteps == {DefaultCooldown}

\* command arguments; a string is a sequence of one-character strings
RoleValues == { <<>>, <<",", "7", ",">>, <<"7", ",", "9">>, <<"x">> }
CooldownValues == { <<"0">>, <<"x">> }
Keys == {"roles", "cooldown", "other"}

(* ------------------------------ strings -------------------------------- *)
Digits == <<"0", "1", "2", "3", "4", "5", "6", "7", "8", "9">>

IsDigit(c) == \E i \in 1..Len(Digits) : Digits[i] = c

DigitValue(c) == (CHOOSE i \in 1..Len(Digits) : Digits[i] = c) - 1

\* str.split(","): the fields between the commas, empty fields included
RECURSIVE split(_)
split(s) ==
    IF s = <<>> THEN << <<>> >>
    ELSE LET rest == split(Tail(s))
         IN  IF Head(s) = ","
             THEN << <<>> >> \o rest
             ELSE << <<Head(s)>> \o Head(rest) >> \o Tail(rest)

\* int(s) raises ValueError unless s is an optional sign followed by digits
IsInt(s) ==
    LET body == IF s # <<>> /\ Head(s) = "-" THEN Tail(s) ELSE s
    IN  body # <<>> /\ \A i \in 1..Len(body) : IsDigit(body[i])

RECURSIVE natOf(_)
natOf(s) ==
    IF s = <<>> THEN 0
    ELSE 10 * natOf(SubSeq(s, 1, Len(s) - 1)) + DigitValue(s[Len(s)])

int(s) == IF Head(s) = "-" THEN 0 - natOf(Tail(s)) ELSE natOf(s)

RECURSIVE nonEmpty(_)
nonEmpty(fields) ==
    IF fields = <<>> THEN <<>>
    ELSE IF Head(fields) = <<>> THEN nonEmpty(Tail(fields))
         ELSE <<Head(fields)>> \o nonEmpty(Tail(fields))

\* _parse_snowflake_csv raises when a non-empty field is not an integer
parse_snowflake_csv_raises(string) ==
    LET fields == nonEmpty(split(string))
    IN  \E i \in 1..Len(fields) : ~IsInt(fields[i])

\* [int(s) for s in string.split(",") if s]
parse_snowflake_csv(string) ==
    LET fields == nonEmpty(split(string))
    IN  [i \in 1..Len(fields) |-> int(fields[i])]

(* ------------------------------- state --------------------------------- *)
VARIABLES
    rooms,          \* rows of the Room table
    posts,          \* rows of the Post table
    next_post_id,   \* next primary key of the Post table
    now,            \* datetime.now(tz=timezone.utc), in seconds
    advances,       \* number of clock advances so far
    ready,          \* BOT.wait_until_ready() has been released
    closed,         \* BOT.is_closed()
    pc,             \* position of _prune_expired_posts_task
    wake_at,        \* time at which the pending asyncio.sleep(60) returns, else 0
    expired_posts,  \* the task's local expired_posts
    idx,            \* position of the task's for loop in expired_posts
    msg_count,      \* messages delivered so far
    msg,            \* the message on_message handled last
    command,        \* the command that message invoked (ctx.command and its arguments)
    cmd_result,     \* reaction put on that message for its command
    grants,         \* calls of _process_role_assignment for the posts
    revokes,        \* calls of _process_role_removal, in order
    deleted_msgs,   \* messages on which msg.delete() was called
    help_dms        \* messages answered with STANDUP_DM_HELP

store == <<rooms, posts, next_post_id>>
clock == <<now, advances>>
client == <<ready, closed>>
sweeper == <<pc, wake_at, expired_posts, idx>>
handlers == <<msg_count, msg, command, cmd_result>>
effects == <<grants, revokes, deleted_msgs, help_dms>>
vars == <<store, clock, client, sweeper, handlers, effects>>

(* --------------------------- persistence ------------------------------- *)
Room(channel_id, role_ids, cooldown) ==
    [channel_id |-> channel_id, role_ids |-> role_ids, cooldown |-> cooldown]

\* Room.select().where(Room.channel_id == channel_id) on a Room table
RoomsWhere(table, channel_id) == {r \in table : r.channel_id = channel_id}

\* Room.create(channel_id=..., role_ids=...): the cooldown takes its default
RoomCreate(channel_id, role_ids) ==
    rooms \cup {Room(channel_id, role_ids, DefaultCooldown)}

\* Post.create(channel_id=..., user_id=..., role_ids=..., timestamp=...) in a
\* channel whose Room has the given cooldown
PostCreate(channel_id, user_id, role_ids, timestamp, cooldown) ==
    [id |-> next_post_id, channel_id |-> channel_id, user_id |-> user_id,
     role_ids |-> role_ids, timestamp |-> timestamp,
     expiry |-> timestamp + cooldown]

\* Post.select_expired_posts(current_time)
select_expired_posts(current_time) == {p \in posts : p.expiry <= current_time}

\* the orders in which a query may return a set of rows
Orderings(S) ==
    {q \in [1..Cardinality(S) -> S] : \A i, j \in DOMAIN q : i # j => q[i] # q[j]}

\* posts left in the database by an earlier run: one expired at startup, one
\* created a sweep interval before it
OldPost ==
    [id |-> 1, channel_id |-> 42, user_id |-> 1, role_ids |-> {7},
     timestamp |-> 0 - DefaultCooldown, expiry |-> 0]

ActivePost ==
    [id |-> 1, channel_id |-> 42, user_id |-> 1, role_ids |-> {7},
     timestamp |-> 0 - SweepInterval, expiry |-> DefaultCooldown - SweepInterval]

\* the grant made for a post when it was created
GrantOf(post, ok) ==
    [post |-> post.id, user_id |-> post.user_id, channel_id |-> post.channel_id,
     role_ids |-> post.role_ids, ok |-> ok]

\* the database at startup: fresh, or as the commands and posts of an earlier
\* run left it (`rooms add 42`, `rooms config 42 roles 7`, posts of user 1,
\* `rooms add 43`, `rooms config 43 roles 7`, `rooms config 43 cooldown 0`)
InitialStores ==
    { <<{}, {}>>, <<{Room(42, {7}, DefaultCooldown), Room(43, {7}, 0)}, {}>> } \cup
    { <<{Room(42, {7}, DefaultCooldown)}, ps>> : ps \in {{}, {OldPost}, {ActivePost}} }

(* ------------------------------ messages ------------------------------- *)
Cmd(name, channel_id, key, value) ==
    [name |-> name, channel_id |-> channel_id, key |-> key, value |-> value]

NoCmd == Cmd("none", 0, "", <<>>)

Msg(id, channel, author, formatted) ==
    [id |-> id, channel |-> channel, author |-> author, formatted |-> formatted]

\* message_is_formatted(msg.content)
message_is_formatted(content) == content.formatted

Result(reaction) == [reaction |-> reaction]

Init ==
    /\ \E st \in InitialStores : rooms = st[1] /\ posts = st[2]
    /\ next_post_id = Cardinality(posts) + 1
    /\ now = 0
    /\ advances = 0
    /\ ready = FALSE
    /\ closed = FALSE
    /\ pc = "wait_until_ready"
    /\ wake_at = 0
    /\ expired_posts = <<>>
    /\ idx = 1
    /\ msg_count = 0
    /\ msg = Msg(0, 0, 0, FALSE)
    /\ command = NoCmd
    /\ cmd_result = Result("none")
    /\ grants = {GrantOf(p, TRUE) : p \in posts}
    /\ revokes = <<>>
    /\ deleted_msgs = {}
    /\ help_dms = {}

(* ------------------------------ commands ------------------------------- *)
\* @commands.has_permissions(administrator=True)
has_permissions(author) == author \in Admins

\* on_command_completion: the check mark on the message
on_command_completion == Result("ok")

\* on_command_error: the cross on the message (the reply that follows it does
\* not change the state)
on_command_error(exception) == Result("fail")

\* rooms_group without a subcommand: ctx.send_help
rooms_group ==
    /\ cmd_result' = on_command_completion
    /\ UNCHANGED rooms

\* variant: `rooms add` creates the room without looking for a conflicting one
rooms_add_unchecked(author, channel_id) ==
    IF ~has_permissions(author)
    THEN /\ cmd_result' = on_command_error("MissingPermissions")
         /\ UNCHANGED rooms
    ELSE /\ rooms' = RoomCreate(channel_id, {})
         /\ cmd_result' = on_command_completion

\* rooms add <channel_id>
rooms_add(author, channel_id) ==
    IF ~has_permissions(author)
    THEN /\ cmd_result' = on_command_error("MissingPermissions")
         /\ UNCHANGED rooms
    ELSE IF RoomsWhere(rooms, channel_id) # {}
    THEN /\ cmd_result' = on_command_error("CommandError")
         /\ UNCHANGED rooms
    ELSE /\ rooms' = RoomCreate(channel_id, {})
         /\ cmd_result' = on_command_completion

\* variant: the delete lacks its `where` and removes every room
rooms_remove_every_room(author, channel_id) ==
    IF ~has_permissions(author)
    THEN /\ cmd_result' = on_command_error("MissingPermissions")
         /\ UNCHANGED rooms
    ELSE /\ rooms' = {}
         /\ cmd_result' = on_command_completion

\* rooms remove <channel_id>
rooms_remove(author, channel_id) ==
    IF ~has_permissions(author)
    THEN /\ cmd_result' = on_command_error("MissingPermissions")
         /\ UNCHANGED rooms
    ELSE /\ rooms' = rooms \ RoomsWhere(rooms, channel_id)
         /\ cmd_result' = on_command_completion

\* rooms list
rooms_list(author) ==
    /\ cmd_result' = IF has_permissions(author)
                     THEN on_command_completion
                     ELSE on_command_error("MissingPermissions")
    /\ UNCHANGED rooms

\* variant: the cooldown update lacks its `where` and rewrites every room
rooms_config_every_room(author, room, key, value) ==
    IF ~has_permissions(author)
    THEN /\ cmd_result' = on_command_error("MissingPermissions")
         /\ UNCHANGED rooms
    ELSE IF RoomsWhere(rooms, room) = {}
    THEN /\ cmd_result' = on_command_error("CommandError")
         /\ UNCHANGED rooms
    ELSE IF key = "roles"
    THEN IF parse_snowflake_csv_raises(value)
         THEN /\ cmd_result' = on_command_error("ValueError")
              /\ UNCHANGED rooms
         ELSE \E target_room \in RoomsWhere(rooms, room) :
                LET snowflakes == parse_snowflake_csv(value)
                    role_ids == {snowflakes[i] : i \in DOMAIN snowflakes} \cap GuildRoles
                IN  /\ rooms' = (rooms \ {target_room})
                                  \cup {[target_room EXCEPT !.role_ids = role_ids]}
                    /\ cmd_result' = on_command_completion
    ELSE IF key = "cooldown"
    THEN IF ~IsInt(value)
         THEN /\ cmd_result' = on_command_error("ValueError")
              /\ UNCHANGED rooms
         ELSE /\ rooms' = {[r EXCEPT !.cooldown = int(value)] : r \in rooms}
              /\ cmd_result' = on_command_completion
    ELSE /\ cmd_result' = on_command_completion
         /\ UNCHANGED rooms

\* rooms config <room> <key> <value>
rooms_config(author, room, key, value) ==
    IF ~has_permissions(author)
    THEN /\ cmd_result' = on_command_error("MissingPermissions")
         /\ UNCHANGED rooms
    ELSE IF RoomsWhere(rooms, room) = {}
    \* the ctx.send of the failure text is never awaited: nothing is sent
    THEN /\ cmd_result' = on_command_error("CommandError")
         /\ UNCHANGED rooms
    ELSE IF key = "roles"
    THEN IF parse_snowflake_csv_raises(value)
         THEN /\ cmd_result' = on_command_error("ValueError")
              /\ UNCHANGED rooms
         ELSE \E target_room \in RoomsWhere(rooms, room) :
                LET snowflakes == parse_snowflake_csv(value)
                    role_ids == {snowflakes[i] : i \in DOMAIN snowflakes} \cap GuildRoles
                IN  /\ rooms' = (rooms \ {target_room})
                                  \cup {[target_room EXCEPT !.role_ids = role_ids]}
                    /\ cmd_result' = on_command_completion
    ELSE IF key = "cooldown"
    THEN IF ~IsInt(value)
         THEN /\ cmd_result' = on_command_error("ValueError")
              /\ UNCHANGED rooms
         ELSE /\ rooms' = {IF r.channel_id = room
                           THEN [r EXCEPT !.cooldown = int(value)] ELSE r : r \in rooms}
              /\ cmd_result' = on_command_completion
    ELSE /\ cmd_result' = on_command_completion
         /\ UNCHANGED rooms

\* info / about
info ==
    /\ cmd_result' = on_command_completion
    /\ UNCHANGED rooms

\* await BOT.process_commands(msg): the command the message invokes, if any
process_commands(author, cmd) ==
    IF cmd.name = "rooms" THEN rooms_group
    ELSE IF cmd.name = "add" THEN rooms_add(author, cmd.channel_id)
    ELSE IF cmd.name = "remove" THEN rooms_remove(author, cmd.channel_id)
    ELSE IF cmd.name = "list" THEN rooms_list(author)
    ELSE IF cmd.name = "config"
    THEN rooms_config(author, cmd.channel_id, cmd.key, cmd.value)
    ELSE IF cmd.name = "info" THEN info
    ELSE cmd_result' = Result("none") /\ UNCHANGED rooms

(* --------------------------- message handler --------------------------- *)
\* variant: the handler never calls _process_role_assignment
process_role_assignment_skipped(post, ok) == grants' = grants

\* _process_role_assignment(post): member.add_roles succeeds or raises
process_role_assignment(post, ok) ==
    grants' = grants \cup {GrantOf(post, ok)}

\* variant: the roles are granted first and the post is created only when
\* the grant succeeded
accept_post_grant_first(channel, author, related_room, ok) ==
    LET new_post == PostCreate(channel, author, related_room.role_ids,
                               now, related_room.cooldown)
    IN  /\ grants' = grants \cup {[post |-> new_post.id, user_id |-> author,
                                   channel_id |-> channel,
                                   role_ids |-> related_room.role_ids, ok |-> ok]}
        /\ posts' = IF ok THEN posts \cup {new_post} ELSE posts
        /\ next_post_id' = next_post_id + 1
        /\ UNCHANGED <<revokes, deleted_msgs, help_dms>>

\* Post.create(...) followed by `await _process_role_assignment(new_post)`
accept_post(channel, author, related_room, ok) ==
    LET new_post == PostCreate(channel, author, related_room.role_ids,
                               now, related_room.cooldown)
    IN  /\ posts' = posts \cup {new_post}
        /\ next_post_id' = next_post_id + 1
        /\ process_role_assignment(new_post, ok)
        /\ UNCHANGED <<revokes, deleted_msgs, help_dms>>

\* variant: the rejection lacks its `return` and falls through to Post.create
reject_post_falls_through(channel, author) ==
    /\ deleted_msgs' = deleted_msgs \cup {msg'.id}
    /\ help_dms' = help_dms \cup {msg'.id}
    /\ \E related_room \in RoomsWhere(rooms', channel) :
         LET new_post == PostCreate(channel, author, related_room.role_ids,
                                    now, related_room.cooldown)
         IN  /\ posts' = posts \cup {new_post}
             /\ next_post_id' = next_post_id + 1
             /\ grants' = grants \cup {[post |-> new_post.id, user_id |-> author,
                                        channel_id |-> channel,
                                        role_ids |-> new_post.role_ids, ok |-> TRUE]}
    /\ UNCHANGED revokes

\* await msg.delete(); await msg.author.send(STANDUP_DM_HELP); return
reject_post(channel, author) ==
    /\ deleted_msgs' = deleted_msgs \cup {msg'.id}
    /\ help_dms' = help_dms \cup {msg'.id}
    /\ UNCHANGED <<posts, next_post_id, grants, revokes>>

\* variant: `rooms remove` also deletes the posts of the removed room
on_message_cascade(channel, author, formatted, cmd) ==
    /\ ~closed
    /\ msg_count < MaxMsgs
    /\ msg_count' = msg_count + 1
    /\ msg' = Msg(msg_count + 1, channel, author, formatted)
    /\ command' = cmd
    /\ process_commands(author, cmd)
    /\ IF cmd.name = "remove" /\ has_permissions(author)
       THEN /\ posts' = {p \in posts : p.channel_id # cmd.channel_id}
            /\ IF RoomsWhere(rooms', channel) = {}
               THEN UNCHANGED <<deleted_msgs, help_dms>>
               ELSE /\ deleted_msgs' = deleted_msgs \cup {msg'.id}
                    /\ help_dms' = help_dms \cup {msg'.id}
            /\ UNCHANGED <<next_post_id, grants, revokes>>
       ELSE IF RoomsWhere(rooms', channel) = {}
       THEN UNCHANGED <<posts, next_post_id, effects>>
       ELSE IF ~message_is_formatted(msg')
       THEN reject_post(channel, author)
       ELSE \E related_room \in RoomsWhere(rooms', channel), ok \in BOOLEAN :
              accept_post(channel, author, related_room, ok)
    /\ UNCHANGED <<clock, client, sweeper>>

\* on_message(msg).  The handler runs without suspension from the delivery
\* of the message to its first network call, so the command, the room lookup
\* and the creation of the post are one step.
on_message(channel, author, formatted, cmd) ==
    /\ ~closed
    /\ msg_count < MaxMsgs
    /\ msg_count' = msg_count + 1
    /\ msg' = Msg(msg_count + 1, channel, author, formatted)
    /\ command' = cmd
    /\ process_commands(author, cmd)
    /\ IF RoomsWhere(rooms', channel) = {}
       THEN UNCHANGED <<posts, next_post_id, effects>>
       ELSE IF ~message_is_formatted(msg')
       THEN reject_post(channel, author)
       ELSE \E related_room \in RoomsWhere(rooms', channel), ok \in BOOLEAN :
              accept_post(channel, author, related_room, ok)
    /\ UNCHANGED <<clock, client, sweeper>>

ValuesOf(key) ==
    IF key = "roles" THEN RoleValues
    ELSE IF key = "cooldown" THEN CooldownValues ELSE {<<>>}

\* A message is a standup post or the invocation of a command: the text of an
\* invocation (the mention of the bot, the command, its arguments) is not a
\* formatted standup.
OnMessagePlain ==
    \E channel \in Channels, author \in Users, formatted \in BOOLEAN :
        on_message(channel, author, formatted, NoCmd)

OnMessageRoomsGroup ==
    \E channel \in Channels, author \in Users :
        on_message(channel, author, FALSE, Cmd("rooms", 0, "", <<>>))

OnMessageRoomsAdd ==
    \E channel \in Channels, author \in Users :
        \E channel_id \in Channels :
            on_message(channel, author, FALSE, Cmd("add", channel_id, "", <<>>))

OnMessageRoomsRemove ==
    \E channel \in Channels, author \in Users :
        \E channel_id \in Channels :
            on_message(channel, author, FALSE, Cmd("remove", channel_id, "", <<>>))

OnMessageRoomsList ==
    \E channel \in Channels, author \in Users :
        on_message(channel, author, FALSE, Cmd("list", 0, "", <<>>))

OnMessageRoomsConfig ==
    \E channel \in Channels, author \in Users :
        \E room \in Channels, key \in Keys :
            \E value \in ValuesOf(key) :
                on_message(channel, author, FALSE, Cmd("config", room, key, value))

OnMessageInfo ==
    \E channel \in Channels, author \in Users :
        on_message(channel, author, FALSE, Cmd("info", 0, "", <<>>))

(* ----------------------------- prune task ------------------------------ *)
\* while not BOT.is_closed(): await asyncio.sleep(60).  The test follows the
\* end of the previous iteration without suspension.
while_not_closed ==
    IF closed
    THEN pc' = "exited" /\ wake_at' = 0
    ELSE pc' = "sleep" /\ wake_at' = now + SweepInterval

\* variant: the task does not wait for readiness
WaitUntilReady_skipped ==
    /\ pc = "wait_until_ready"
    /\ while_not_closed
    /\ UNCHANGED <<store, clock, client, expired_posts, idx, handlers, effects>>

\* await BOT.wait_until_ready()
WaitUntilReady ==
    /\ pc = "wait_until_ready"
    /\ ready
    /\ while_not_closed
    /\ UNCHANGED <<store, clock, client, expired_posts, idx, handlers, effects>>

\* the sleep returns; expired_posts = Post.select_expired_posts(now); an
\* empty batch continues with the next iteration
SelectExpired ==
    /\ pc = "sleep"
    /\ now >= wake_at
    /\ \E q \in Orderings(select_expired_posts(now)) :
         /\ expired_posts' = q
         /\ idx' = 1
         /\ IF Len(q) = 0
            THEN while_not_closed
            ELSE pc' = "remove_roles" /\ wake_at' = 0
    /\ UNCHANGED <<store, clock, client, handlers, effects>>

\* variant: the roles are read from the Room as it is at the sweep
roles_to_remove_live(post) ==
    IF RoomsWhere(rooms, post.channel_id) = {} THEN {}
    ELSE (CHOOSE r \in RoomsWhere(rooms, post.channel_id) : TRUE).role_ids

\* roles handed to member.remove_roles
roles_to_remove(post) == post.role_ids

\* variant: the exception of member.remove_roles is caught around the for
\* loop, and the while loop goes on with its next iteration
process_role_removal_caught ==
    /\ pc = "remove_roles"
    /\ LET post == expired_posts[idx]
       IN  \E ok \in BOOLEAN :
             /\ revokes' = Append(revokes,
                                  [post |-> post.id, user_id |-> post.user_id,
                                   channel_id |-> post.channel_id,
                                   role_ids |-> roles_to_remove(post), ok |-> ok])
             /\ IF ok THEN pc' = "delete_instance" /\ UNCHANGED wake_at
                ELSE while_not_closed
    /\ UNCHANGED <<store, clock, client, expired_posts, idx, handlers,
                   grants, deleted_msgs, help_dms>>

\* await _process_role_removal(post): member.remove_roles succeeds, or raises
\* and the exception ends the task
process_role_removal ==
    /\ pc = "remove_roles"
    /\ LET post == expired_posts[idx]
       IN  \E ok \in BOOLEAN :
             /\ revokes' = Append(revokes,
                                  [post |-> post.id, user_id |-> post.user_id,
                                   channel_id |-> post.channel_id,
                                   role_ids |-> roles_to_remove(post), ok |-> ok])
             /\ pc' = IF ok THEN "delete_instance" ELSE "raised"
    /\ UNCHANGED <<store, clock, client, wake_at, expired_posts, idx, handlers,
                   grants, deleted_msgs, help_dms>>

\* variant: the loop goes on without deleting the post
delete_instance_kept ==
    /\ pc = "delete_instance"
    /\ posts' = posts
    /\ IF idx < Len(expired_posts)
       THEN idx' = idx + 1 /\ pc' = "remove_roles" /\ UNCHANGED wake_at
       ELSE idx' = idx /\ while_not_closed
    /\ UNCHANGED <<rooms, next_post_id, clock, client, expired_posts,
                   handlers, effects>>

\* post.delete_instance(), then the next post of the batch or the next
\* iteration of the while loop
delete_instance ==
    /\ pc = "delete_instance"
    /\ posts' = {p \in posts : p.id # expired_posts[idx].id}
    /\ IF idx < Len(expired_posts)
       THEN idx' = idx + 1 /\ pc' = "remove_roles" /\ UNCHANGED wake_at
       ELSE idx' = idx /\ while_not_closed
    /\ UNCHANGED <<rooms, next_post_id, clock, client, expired_posts,
                   handlers, effects>>

(* ----------------------------- environment ----------------------------- *)
BotReady ==
    /\ ~ready /\ ~closed
    /\ ready' = TRUE
    /\ UNCHANGED <<store, clock, closed, sweeper, handlers, effects>>

BotClose ==
    /\ ~closed
    /\ closed' = TRUE
    /\ UNCHANGED <<store, clock, ready, sweeper, handlers, effects>>

AdvanceTime ==
    /\ advances < MaxAdvance
    /\ \E d \in TimeSteps : now' = now + d
    /\ advances' = advances + 1
    /\ UNCHANGED <<store, client, sweeper, handlers, effects>>

Next ==
    \/ OnMessagePlain
    \/ OnMessageRoomsGroup
    \/ OnMessageRoomsAdd
    \/ OnMessageRoomsRemove
    \/ OnMessageRoomsList
    \/ OnMessageRoomsConfig
    \/ OnMessageInfo
    \/ WaitUntilReady
    \/ SelectExpired
    \/ process_role_removal
    \/ delete_instance
    \/ BotReady
    \/ BotClose
    \/ AdvanceTime

Spec == Init /\ [][Next]_vars

(* ======================== properties of the claims ===================== *)
\* a message was handled in this step
Handled == msg_count' = msg_count + 1

\* the channel of the handled message has a Room when the handler looks it up
Governed == RoomsWhere(rooms', msg'.channel) # {}

\* the posts of a (user, channel) pair
PostsOf(user_id, channel_id) ==
    {p \in posts : p.user_id = user_id /\ p.channel_id = channel_id}

\* the most recent post of the pair has its expiry in the future
InCooldown(user_id, channel_id) ==
    \E p \in PostsOf(user_id, channel_id) :
        /\ \A q \in PostsOf(user_id, channel_id) : q.id <= p.id
        /\ p.expiry > now

Revoked(post_id) == \E i \in DOMAIN revokes : revokes[i].post = post_id

\* C1: cooldown invariant. No (user, channel) pair has two posts in the store
\* of which the later-created one was created before the earlier one's expiry.
C1_CooldownInvariant ==
    \A p, q \in posts :
        (p.user_id = q.user_id /\ p.channel_id = q.channel_id /\ p.id < q.id)
            => q.timestamp >= p.expiry

\* C2: a formatted message in a governed channel from a user who is not in
\* cooldown creates exactly one post, with the message's channel, its author,
\* the current time and the Room's role set, and the grant is invoked once
\* for that post, user and channel with exactly those roles.
C2_AcceptedPostIsCreatedAndGranted ==
    [][ (Handled /\ Governed /\ msg'.formatted
            /\ ~InCooldown(msg'.author, msg'.channel))
        => \E room \in RoomsWhere(rooms', msg'.channel) :
             \E p \in posts' \ posts :
               /\ posts' = posts \cup {p}
               /\ \A q \in posts : q.id # p.id
               /\ p.channel_id = msg'.channel
               /\ p.user_id = msg'.author
               /\ p.timestamp = now
               /\ p.role_ids = room.role_ids
               /\ \E g \in grants' \ grants :
                    /\ grants' = grants \cup {g}
                    /\ g.post = p.id
                    /\ g.user_id = msg'.author
                    /\ g.channel_id = msg'.channel
                    /\ g.role_ids = room.role_ids ]_vars

\* C2 witness: the last message was formatted and its post, with role 7, is
\* in the store and was granted.
C2_Witness ==
    /\ msg.formatted
    /\ \E p \in posts : \E g \in grants :
         /\ g.post = p.id /\ p.user_id = msg.author /\ p.channel_id = msg.channel
         /\ p.role_ids = {7} /\ g.role_ids = {7} /\ p.id = next_post_id - 1

\* C3: the batch of a tick is the posts expired at the query; each of them is
\* revoked with its own user, channel and roles and then deleted, a post is
\* deleted only after its revoke, and a post that is not expired is neither
\* revoked nor deleted.
C3_SweepRevokesThenDeletesExpired ==
    [][ /\ \A p \in posts \ posts' :
             /\ p.expiry <= now
             /\ \E i \in DOMAIN revokes :
                  /\ revokes[i].post = p.id
                  /\ revokes[i].user_id = p.user_id
                  /\ revokes[i].channel_id = p.channel_id
                  /\ revokes[i].role_ids = p.role_ids
        /\ (Len(revokes') > Len(revokes))
             => \E p \in posts : /\ p.id = revokes'[Len(revokes')].post
                                 /\ p.expiry <= now
        /\ (pc = "sleep" /\ pc' = "remove_roles")
             => {expired_posts'[k] : k \in DOMAIN expired_posts'}
                    = {p \in posts : p.expiry <= now}
        /\ (pc \in {"remove_roles", "delete_instance"}
              /\ pc' \notin {"remove_roles", "delete_instance"})
             => \A k \in DOMAIN expired_posts :
                  /\ \E i \in DOMAIN revokes' : revokes'[i].post = expired_posts[k].id
                  /\ expired_posts[k] \notin posts' ]_vars

\* C4: a revoke that fails does not stop the sweep: the task has not ended
\* with the exception and the post is deleted as the next step of the task.
C4_SweepSurvivesRevokeFailure ==
    \A i \in DOMAIN revokes :
        ~revokes[i].ok =>
            /\ pc # "raised"
            /\ (\E p \in posts : p.id = revokes[i].post)
                 => (pc = "delete_instance" /\ expired_posts[idx].id = revokes[i].post)

C6_RevokeUsesGrantedRoles ==
    \A i \in DOMAIN revokes : \A g \in grants :
        g.post = revokes[i].post =>
            /\ revokes[i].role_ids = g.role_ids
            /\ revokes[i].user_id = g.user_id
            /\ revokes[i].channel_id = g.channel_id

\* C6 witness: a post granted with role 7 was revoked after its Room's role
\* set had been changed.
C6_Witness ==
    \E i \in DOMAIN revokes : \E g \in grants :
        /\ g.post = revokes[i].post
        /\ g.role_ids = {7}
        /\ \E r \in rooms : r.channel_id = g.channel_id /\ r.role_ids # g.role_ids

\* C7: a message in a governed channel from a user in cooldown is rejected
\* like a malformed one: it is deleted, the help text is sent, and neither a
\* post nor a grant is made.
C7_CooldownRejects ==
    [][ (Handled /\ Governed /\ InCooldown(msg'.author, msg'.channel))
        => /\ msg'.id \in deleted_msgs'
           /\ msg'.id \in help_dms'
           /\ posts' = posts
           /\ grants' = grants ]_vars

C9_ExpiryIsCreationPlusCooldown ==
    [][ /\ \A p \in posts' : p.expiry > p.timestamp
        /\ \A p \in posts' \ posts :
             \E r \in RoomsWhere(rooms', p.channel_id) :
                 p.expiry = p.timestamp + r.cooldown
        /\ \A p \in posts : \A q \in posts' :
             p.id = q.id => q.expiry = p.expiry ]_vars

\* C10: until readiness is signalled the prune task has made no query, no
\* revoke and no deletion: it still waits, and every post ever created is
\* in the store.
C10_NoSweepBeforeReady ==
    ~ready =>
        /\ pc = "wait_until_ready"
        /\ expired_posts = <<>>
        /\ revokes = <<>>
        /\ \A k \in 1..(next_post_id - 1) : \E p \in posts : p.id = k

\* C10 witness: not ready, while an expired post of an earlier run and a new
\* post are in the store and the clock has advanced.
C10_Witness ==
    /\ ~ready
    /\ OldPost \in posts
    /\ Cardinality(posts) = 2
    /\ now > 0

\* the posts of the task's current batch
Batch == {expired_posts[k] : k \in DOMAIN expired_posts}

\* the task leaves its while loop in this step, by the loop test or by an
\* exception
LeavesLoop == pc' # pc /\ pc' \in {"exited", "raised"}

\* C11: after the shutdown flag is set the prune task leaves its loop only
\* between ticks: when it leaves, every post of the batch that was in flight
\* has been revoked and deleted.
C11_ShutdownExitsBetweenTicks ==
    [][ (closed /\ LeavesLoop)
        => \A p \in Batch : Revoked(p.id)' /\ p \notin posts' ]_vars

\* the sleep of the task returns in this step and the query of a tick is made
Tick == pc = "sleep" /\ sweeper' # sweeper

\* the posts expired now that the previous tick's query did not return
NewlyExpired == {p \in select_expired_posts(now) : p \notin Batch}

\* C12: sweep idempotence. A tick that follows another with no post newly
\* expired in between has an empty batch, invokes no revoke and deletes
\* nothing: the Post table is as the tick before left it.
C12_SecondSweepIsNoOp ==
    [][ (Tick /\ NewlyExpired = {})
        => /\ expired_posts' = <<>>
           /\ pc' \in {"sleep", "exited"}
           /\ revokes' = revokes
           /\ posts' = posts ]_vars

\* C12 witness: a tick revoked and deleted its batch, and the tick after it
\* found nothing, while an unexpired post stays in the store.
C12_Witness ==
    /\ Len(revokes) > 0
    /\ expired_posts = <<>>
    /\ pc = "sleep"
    /\ \E p \in posts : p.expiry > now

\* the handled message invoked a command of the rooms group with the
\* permission it requires
RegistryOperation ==
    /\ Handled
    /\ command'.name \in {"add", "remove", "config", "list"}
    /\ has_permissions(msg'.author)

\* C13: entry ownership. The Post table grows only by the post the message
\* handler creates for a message and shrinks only by the post the prune task
\* deletes; no step changes a post that stays; and a rooms command (add,
\* remove, config, list) leaves the Post table as it is, the posts of a
\* removed room included.
C13_EntryOwnership ==
    [][ /\ (posts' # posts)
             => \/ /\ Handled /\ Governed /\ msg'.formatted
                   /\ \E p \in posts' \ posts :
                        /\ posts' = posts \cup {p}
                        /\ p.user_id = msg'.author /\ p.channel_id = msg'.channel
                \/ /\ pc = "delete_instance"
                   /\ posts' = posts \ {expired_posts[idx]}
        /\ \A p \in posts : \A q \in posts' : p.id = q.id => p = q
        /\ RegistryOperation => posts' = posts ]_vars

\* C13 witness: a room has been removed, a post of its channel stayed in the
\* store, was revoked at its expiry and is about to be deleted by the task.
C13_Witness ==
    /\ command.name = "remove"
    /\ cmd_result.reaction = "ok"
    /\ RoomsWhere(rooms, command.channel_id) = {}
    /\ pc = "delete_instance"
    /\ expired_posts[idx] \in posts
    /\ expired_posts[idx].channel_id = command.channel_id
    /\ Revoked(expired_posts[idx].id)

\* C14: a message that arrives in a channel without a Room is not deleted
\* and not answered, and neither a post nor a grant is made for it, whatever
\* its text is.
C14_UngovernedChannelIsNoOp ==
    [][ (Handled /\ RoomsWhere(rooms, msg'.channel) = {})
        => /\ deleted_msgs' = deleted_msgs
           /\ help_dms' = help_dms
           /\ posts' = posts
           /\ next_post_id' = next_post_id
           /\ grants' = grants ]_vars

\* the handled message invoked the named command with the permission it
\* requires
Invoked(name) ==
    /\ Handled
    /\ command'.name = name
    /\ has_permissions(msg'.author)

\* C15: the Room table never holds two rooms of one channel, and `rooms add`
\* for a channel that has a Room fails and leaves the Room table, the
\* existing Room's roles and cooldown included, unchanged.
C15_OneRoomPerChannel ==
    /\ [](\A r1, r2 \in rooms : r1.channel_id = r2.channel_id => r1 = r2)
    /\ [][ (Invoked("add") /\ RoomsWhere(rooms, command'.channel_id) # {})
           => /\ cmd_result'.reaction = "fail"
              /\ rooms' = rooms ]_vars
    /\ [][ (Invoked("add") /\ RoomsWhere(rooms, command'.channel_id) = {})
           => /\ cmd_result'.reaction = "ok"
              /\ rooms' = rooms \cup {Room(command'.channel_id, {}, DefaultCooldown)} ]_vars

\* C15 witness: `rooms add 42` has failed on a Room of channel 42 whose
\* roles are {7}, while another Room exists.
C15_Witness ==
    /\ command.name = "add"
    /\ command.channel_id = 42
    /\ has_permissions(msg.author)
    /\ cmd_result.reaction = "fail"
    /\ Room(42, {7}, DefaultCooldown) \in rooms
    /\ Cardinality(rooms) = 2

\* the rooms of the other channels are as they were
OtherRoomsUnchanged(channel_id) ==
    {r \in rooms' : r.channel_id # channel_id} = {r \in rooms : r.channel_id # channel_id}

\* C16: `rooms config` for a channel without a Room fails and changes
\* neither the Room table nor the Post table; on an existing Room the key
\* `roles` changes at most that Room's role set and the key `cooldown` at
\* most that Room's cooldown, and no post changes.
C16_ConfigNotFoundAndFrame ==
    [][ Invoked("config")
        => /\ posts' = posts
           /\ OtherRoomsUnchanged(command'.channel_id)
           /\ IF RoomsWhere(rooms, command'.channel_id) = {}
              THEN cmd_result'.reaction = "fail" /\ rooms' = rooms
              ELSE \A r \in RoomsWhere(rooms, command'.channel_id) :
                     \E r2 \in rooms' :
                        /\ RoomsWhere(rooms', command'.channel_id) = {r2}
                        /\ (command'.key # "roles" => r2.role_ids = r.role_ids)
                        /\ (command'.key # "cooldown" => r2.cooldown = r.cooldown)
                        /\ (command'.key = "roles" /\ cmd_result'.reaction = "ok")
                             => r2.role_ids \subseteq GuildRoles
                        /\ (command'.key = "cooldown" /\ cmd_result'.reaction = "ok")
                             => r2.cooldown = int(command'.value)
                        /\ cmd_result'.reaction = "fail" => r2 = r ]_vars

\* C16 witness: `rooms config 42 roles ...` has emptied the role set of the
\* Room of channel 42 and left its cooldown and the Room of channel 43 alone.
C16_Witness ==
    /\ command.name = "config"
    /\ command.channel_id = 42
    /\ command.key = "roles"
    /\ cmd_result.reaction = "ok"
    /\ rooms = {Room(42, {}, DefaultCooldown), Room(43, {7}, 0)}

\* C16 witness of the failure: `rooms config 43 ...` by an administrator has
\* failed for want of a Room of channel 43, with the Room of channel 42 and
\* its post in place.
C16_WitnessNotFound ==
    /\ command.name = "config"
    /\ command.channel_id = 43
    /\ has_permissions(msg.author)
    /\ cmd_result.reaction = "fail"
    /\ rooms = {Room(42, {7}, DefaultCooldown)}
    /\ ActivePost \in posts

\* the Room table after Room.delete().where(Room.channel_id == channel_id)
Removed(table, channel_id) == table \ RoomsWhere(table, channel_id)

\* C17: `rooms remove` leaves no Room of the channel and leaves the other
\* rooms as they were; for a channel without a Room it succeeds and leaves
\* the Room table unchanged, so removing again changes nothing more.
C17_RemoveIsIdempotent ==
    [][ Invoked("remove")
        => /\ cmd_result'.reaction = "ok"
           /\ RoomsWhere(rooms', command'.channel_id) = {}
           /\ OtherRoomsUnchanged(command'.channel_id)
           /\ (RoomsWhere(rooms, command'.channel_id) = {} => rooms' = rooms)
           /\ rooms' = Removed(rooms, command'.channel_id)
           /\ Removed(rooms', command'.channel_id) = rooms' ]_vars

\* C17 witness: `rooms remove 43` has succeeded although channel 43 has no
\* Room, and the Room of channel 42 is as it was.
C17_Witness ==
    /\ command.name = "remove"
    /\ command.channel_id = 43
    /\ has_permissions(msg.author)
    /\ cmd_result.reaction = "ok"
    /\ rooms = {Room(42, {7}, DefaultCooldown)}

\* the prune task invokes _process_role_removal in this step
Revokes == Len(revokes') = Len(revokes) + 1

\* C18: the prune task never takes the roles of a (user, channel) pair away
\* while another post of that pair, whose grant succeeded, is in the store
\* and not expired.
C18_NoRevokeWhileAnotherPostIsActive ==
    [][ Revokes
        => LET r == revokes'[Len(revokes')]
           IN  r.ok =>
                 ~\E p \in posts :
                    /\ p.user_id = r.user_id
                    /\ p.channel_id = r.channel_id
                    /\ p.id # r.post
                    /\ p.expiry > now
                    /\ GrantOf(p, TRUE) \in grants
                    /\ p.role_ids \cap r.role_ids # {} ]_vars

\* C19: no batch begins after shutdown. When the shutdown flag is set while
\* the prune task sleeps, the task ends at its wake-up without a batch: it
\* makes no revoke and no deletion afterwards.
C19_NoBatchAfterShutdown ==
    [][ (closed /\ pc = "sleep")
        => /\ pc' \in {"sleep", "exited"}
           /\ expired_posts' \in {expired_posts, <<>>}
           /\ revokes' = revokes
           /\ posts \subseteq posts' ]_vars

\* C20: over a run the revoke is invoked at most once for a post, and only
\* for a post that is in the store; ticks do not overlap (a query is made
\* only while no batch is in progress), and a post whose revoke succeeded is
\* no longer in the store when a query is made.
C20_RevokeAtMostOncePerPost ==
    [][ /\ Revokes
             => LET r == revokes'[Len(revokes')]
                IN  /\ ~Revoked(r.post)
                    /\ \E p \in posts : p.id = r.post
        /\ (expired_posts' # expired_posts) => pc = "sleep"
        /\ Tick => \A p \in posts : \A i \in DOMAIN revokes :
                      revokes[i].post = p.id => ~revokes[i].ok ]_vars

\* C20 witness: a batch of two posts has been revoked and deleted, each post
\* once, and the task sleeps again.
C20_Witness ==
    /\ Len(revokes) = 2
    /\ revokes[1].post # revokes[2].post
    /\ revokes[1].ok /\ revokes[2].ok
    /\ posts = {}
    /\ pc = "sleep"

====
